---- MODULE Spec2Model ----
(***************************************************************************)
(* hadar: the preprocessing pipeline (Spec), the solve facade with the LP  *)
(* solver, the remote solver and the result analyzer (SpecSolve), and the  *)
(* entry handlers of the actor solver (SpecActor).                         *)
(*                                                                         *)
(* Preprocessing pipeline (src/hadar/preprocessing/pipeline.py).           *)
(*                                                                         *)
(* Python lists are mutable objects: a plug holds references to its        *)
(* inputs and outputs lists, so the lists live in a heap and a plug is a   *)
(* pair of heap addresses.  A stage owns a plug and a queue of bound       *)
(* methods (next_computes), modelled as the stages they are bound to.      *)
(* A timeline (pandas DataFrame with (scenario, name) columns) is a        *)
(* sequence of columns, which may hold the same (scenario, name) twice.    *)
(***************************************************************************)
EXTENDS Integers, Sequences, FiniteSets, TLC

VARIABLES heap, plug, next_computes, kind, comp, nadds, lastAdd, prev, table, out,
          study, cpu, pc, call, batches, worker, handed, posts, outcome, analysis,
          mem, act, ran

pipelineVars == <<heap, plug, next_computes, kind, comp, nadds, lastAdd, prev, table, out>>
solverVars == <<study, cpu, pc, call, batches, worker, handed, posts, outcome, analysis>>
actorVars == <<mem, act, ran>>
vars == <<pipelineVars, solverVars, actorVars>>

(* ------------------------------ bounds -------------------------------- *)

\* number of Stage.__add__ calls explored
MaxAdds == 2
\* scenarios of an input timeline
MaxScn == 2
\* rows (timesteps) of an input timeline
Horizon == 2
\* the n of RepeatScenario(n)
RepeatN == 2

\* the stage objects of a behaviour
Stages == {1, 2, 3}

(* ------------------------------ helpers ------------------------------- *)

Range(s) == {s[k] : k \in 1..Len(s)}

RECURSIVE Uniq(_)
\* pandas Index.unique(): first occurrences, in order (by halves)
Uniq(s) ==
    IF Len(s) <= 1 THEN s
    ELSE LET h == Len(s) \div 2
             l == Uniq(SubSeq(s, 1, h))
             r == Uniq(SubSeq(s, h + 1, Len(s)))
             seen == Range(l)
         IN  l \o SelectSeq(r, LAMBDA e : e \notin seen)

RECURSIVE Flatten(_)
\* the concatenation of a sequence of sequences (by halves)
Flatten(ss) ==
    IF ss = <<>> THEN <<>>
    ELSE IF Len(ss) = 1 THEN ss[1]
    ELSE LET h == Len(ss) \div 2
         IN  Flatten(SubSeq(ss, 1, h)) \o Flatten(SubSeq(ss, h + 1, Len(ss)))

Min2(a, b) == IF a < b THEN a ELSE b
Max2(a, b) == IF a > b THEN a ELSE b

(* --------------------------- stage catalog ---------------------------- *)

NoKind ==
    [type |-> "none", lower |-> 0, upper |-> 0, rename |-> <<>>, names |-> <<>>,
     n |-> 0, loss |-> 0, occur_freq |-> 0, downtime_min |-> 0,
     downtime_max |-> 0, seed |-> 0]

\* Clip(lower, upper)
ClipK(lo, up) == [NoKind EXCEPT !.type = "Clip", !.lower = lo, !.upper = up]
\* Rename({old: new, ...}); the dict as its sequence of items
RenameK(items) == [NoKind EXCEPT !.type = "Rename", !.rename = items]
\* Drop(names)
DropK(names) == [NoKind EXCEPT !.type = "Drop", !.names = names]
\* Fault(loss, occur_freq (percent), downtime_min, downtime_max, seed)
FaultK(loss, freq, dmin, dmax, seed) ==
    [NoKind EXCEPT !.type = "Fault", !.loss = loss, !.occur_freq = freq,
                   !.downtime_min = dmin, !.downtime_max = dmax, !.seed = seed]
\* RepeatScenario(n)
RepeatK(n) == [NoKind EXCEPT !.type = "RepeatScenario", !.n = n]

RenameAB == RenameK(<< <<"a", "b">> >>)
RenameBA == RenameK(<< <<"b", "a">> >>)
RenameQA == RenameK(<< <<"a", "quantity">>, <<"b", "a">> >>)

\* the stages a behaviour is built from
Catalog ==
    << ClipK(2, 6), RepeatK(RepeatN), RenameAB, RenameBA, RenameQA,
       DropK(<<"a">>), FaultK(10, 0, 1, 2, 7), FaultK(10, 100, 1, 2, 7) >>

\* the lists a stage's constructor hands to its plug
InitInputs(k) ==
    CASE k.type = "Rename" -> [x \in 1..Len(k.rename) |-> k.rename[x][1]]
      [] k.type = "Drop"   -> k.names
      [] k.type = "Fault"  -> <<"quantity">>
      [] OTHER             -> <<>>

InitOutputs(k) ==
    CASE k.type = "Rename" -> [x \in 1..Len(k.rename) |-> k.rename[x][2]]
      [] k.type = "Fault"  -> <<"quantity">>
      [] OTHER             -> <<>>

IsFreeKind(k) == k.type \in {"Clip", "RepeatScenario"}

(* ------------------------------- plugs -------------------------------- *)

\* Plug.computable: every input is among the names
Computable(h, p, names) ==
    \A x \in 1..Len(h[p.inputs]) : h[p.inputs][x] \in Range(names)

\* FreePlug.linkable_to
FreeLinkableTo(h, A, B) == TRUE

\* a linkable_to that looks for the next inputs in self.inputs
RestrictedLinkableToInputs(h, A, B) ==
    IF B.free THEN TRUE
    ELSE \A x \in 1..Len(h[B.inputs]) : h[B.inputs][x] \in Range(h[A.inputs])

\* RestrictedPlug.linkable_to
RestrictedLinkableTo(h, A, B) ==
    IF B.free THEN TRUE
    ELSE \A x \in 1..Len(h[B.inputs]) : h[B.inputs][x] \in Range(h[A.outputs])

LinkableTo(h, A, B) ==
    IF A.free THEN FreeLinkableTo(h, A, B) ELSE RestrictedLinkableTo(h, A, B)

\* deepcopy(p): a plug of the same class on two fresh lists
DeepCopy(h, p) ==
    [heap |-> h \o <<h[p.inputs], h[p.outputs]>>,
     plug |-> [free |-> p.free, inputs |-> Len(h) + 1, outputs |-> Len(h) + 2]]

\* a FreePlug.__add__ that always returns a copy of self
FreePlugAddSelf(h, A, B) == DeepCopy(h, A)

\* FreePlug.__add__
FreePlugAdd(h, A, B) == IF ~B.free THEN DeepCopy(h, B) ELSE DeepCopy(h, A)

\* a RestrictedPlug.__add__ that keeps every output of self
RestrictedPlugAddUnfiltered(h, A, B) ==
    IF B.free THEN [heap |-> h, plug |-> A]
    ELSE [heap |-> [h EXCEPT ![B.outputs] = h[B.outputs] \o h[A.outputs]],
          plug |-> [free |-> FALSE, inputs |-> A.inputs, outputs |-> B.outputs]]

\* RestrictedPlug.__add__: returns self, or extends next.outputs in place and
\* returns a plug on self.inputs and next.outputs
RestrictedPlugAdd(h, A, B) ==
    IF B.free THEN [heap |-> h, plug |-> A]
    ELSE LET kept == SelectSeq(h[A.outputs], LAMBDA e : e \notin Range(h[B.inputs]))
         IN  [heap |-> [h EXCEPT ![B.outputs] = h[B.outputs] \o kept],
              plug |-> [free |-> FALSE, inputs |-> A.inputs, outputs |-> B.outputs]]

PlugAdd(h, A, B) ==
    IF A.free THEN FreePlugAdd(h, A, B) ELSE RestrictedPlugAdd(h, A, B)

(* ------------------------------ timelines ----------------------------- *)

\* a column: scenario label, signal name, one value per row; an all-NaN
\* column (pandas reindex to a missing label) has vals = <<>>
Col(s, nm, vs) == [scn |-> s, name |-> nm, vals |-> vs]

\* Stage.get_names: level-1 labels, first occurrences
GetNames(cols) == Uniq([c \in 1..Len(cols) |-> cols[c].name])

\* Stage.get_scenarios: level-0 labels, first occurrences
GetScenarios(cols) == Uniq([c \in 1..Len(cols) |-> cols[c].scn])

\* timeline[scn]: the columns of one scenario, in table order
ScenarioOf(cols, s) == SelectSeq(cols, LAMBDA c : c.scn = s)

NamesOf(cols) == [c \in 1..Len(cols) |-> cols[c].name]

HasDuplicates(s) == Len(Uniq(s)) # Len(s)

\* Stage.build_multi_index: the labels (scenario, name), every scenario
\* repeated once per name and the names tiled once per scenario
BuildMultiIndex(scenarios, names) ==
    LET nn == Len(names)
    IN  [j \in 1..(Len(scenarios) * nn) |->
            <<scenarios[((j - 1) \div nn) + 1], names[((j - 1) % nn) + 1]>>]

Raised == [ok |-> FALSE, cols |-> <<>>]
Done(cols) == [ok |-> TRUE, cols |-> cols]

\* Clip._process_timeline
ClipProcess(k, cols) ==
    Done([c \in 1..Len(cols) |->
            LET v == cols[c].vals
            IN  Col(cols[c].scn, cols[c].name,
                    [t \in 1..Len(v) |-> Max2(Min2(v[t], k.upper), k.lower)])])

\* Rename._rename
RenameName(k, nm) ==
    IF \E x \in 1..Len(k.rename) : k.rename[x][1] = nm
    THEN LET x == CHOOSE y \in 1..Len(k.rename) : k.rename[y][1] = nm
         IN  k.rename[x][2]
    ELSE nm

\* Rename._process_timeline
RenameProcess(k, cols) ==
    Done([c \in 1..Len(cols) |->
            Col(cols[c].scn, RenameName(k, cols[c].name), cols[c].vals)])

\* Drop._process_timeline: pandas drop(level=1) removes every column whose
\* name is listed and raises KeyError when it removed none
DropProcess(k, cols) ==
    LET left == SelectSeq(cols, LAMBDA c : c.name \notin Range(k.names))
    IN  IF Len(left) = Len(cols) THEN Raised ELSE Done(left)

\* a RepeatScenario that repeats every column in place (np.repeat)
RepeatProcessInPlace(k, cols) ==
    LET nc     == Len(cols)
        n_scn  == Len(GetScenarios(cols))
        names  == GetNames(cols)
        index  == BuildMultiIndex([s \in 1..(n_scn * k.n) |-> s - 1], names)
    IN  IF Len(index) # nc * k.n THEN Raised
        ELSE Done([j \in 1..(nc * k.n) |->
                      Col(index[j][1], index[j][2], cols[((j - 1) \div k.n) + 1].vals)])

\* RepeatScenario._process_timeline: np.tile of the data, relabelled by
\* build_multi_index(arange(n_scn * n), names); the DataFrame constructor
\* raises when labels and data differ in number
RepeatProcess(k, cols) ==
    LET nc     == Len(cols)
        n_scn  == Len(GetScenarios(cols))
        names  == GetNames(cols)
        index  == BuildMultiIndex([s \in 1..(n_scn * k.n) |-> s - 1], names)
    IN  IF Len(index) # nc * k.n THEN Raised
        ELSE Done([j \in 1..(nc * k.n) |->
                      Col(index[j][1], index[j][2], cols[((j - 1) % nc) + 1].vals)])

RECURSIVE LcgStep(_, _)
\* k steps of the generator from the state x
LcgStep(x, k) == IF k = 0 THEN x ELSE (LcgStep(x, k - 1) * 37 + 11) % 101

\* the draws a _process_scenarios can make, by state of the generator
Draws == [x \in 0..100 |-> [k \in 0..(3 * Horizon) |-> LcgStep(x, k)]]

\* the k-th draw of the generator seeded by np.random.seed(seed): a
\* deterministic stream fixed by the seed
Lcg(seed, k) == Draws[seed % 101][k]

\* nb_faults: the sum of one Bernoulli(occur_freq) draw for each row
NbFaults(k) == Cardinality({u \in 1..Horizon : (Lcg(k.seed, u) % 100) < k.occur_freq})

\* faults_begin[f - 1]: a row drawn in range(horizon)
FaultsBegin(k, f) == Lcg(k.seed, Horizon + f) % Horizon

\* faults_duration[f - 1]: uniform(low=downtime_min, high=downtime_max) cut
\* to an integer
FaultsDuration(k, f) ==
    LET width == k.downtime_max - k.downtime_min
    IN  k.downtime_min +
            (IF width > 0 THEN Lcg(k.seed, Horizon + NbFaults(k) + f) % width ELSE 0)

\* Fault._process_scenarios: the loss subtracted at row t (1-based)
LossQt(k, t) ==
    LET hits == {f \in 1..NbFaults(k) :
                    FaultsBegin(k, f) <= t - 1 /\ t - 1 < FaultsBegin(k, f) + FaultsDuration(k, f)}
    IN  k.loss * Cardinality(hits)

\* a _process_scenarios that draws from a stream which goes on from one
\* scenario to the next
FaultScenarioStream(k, scen) ==
    IF "quantity" \notin Range(NamesOf(scen)) THEN Raised
    ELSE Done([c \in 1..Len(scen) |->
                 IF scen[c].name = "quantity"
                 THEN Col(scen[c].scn, scen[c].name,
                          [t \in 1..Len(scen[c].vals) |->
                              scen[c].vals[t] - LossQt([k EXCEPT !.seed = @ + scen[c].scn], t)])
                 ELSE scen[c]])

\* Fault._process_scenarios on the columns of one scenario: KeyError when
\* there is no quantity column
FaultScenario(k, scen) ==
    IF "quantity" \notin Range(NamesOf(scen)) THEN Raised
    ELSE Done([c \in 1..Len(scen) |->
                 IF scen[c].name = "quantity"
                 THEN Col(scen[c].scn, scen[c].name,
                          [t \in 1..Len(scen[c].vals) |-> scen[c].vals[t] - LossQt(k, t)])
                 ELSE scen[c]])

\* output[scn] = frame: the frame is reindexed to the output's columns of
\* that scenario (the plug outputs); a missing name gives a NaN column
ReindexTo(s, scen, outputs) ==
    [o \in 1..Len(outputs) |->
        IF outputs[o] \in Range(NamesOf(scen))
        THEN LET c == CHOOSE d \in 1..Len(scen) : scen[d].name = outputs[o]
             IN  Col(s, outputs[o], scen[c].vals)
        ELSE Col(s, outputs[o], <<>>)]

\* FocusStage._process_timeline: a frame whose columns are
\* build_multi_index(scenarios, plug.outputs), filled scenario by scenario;
\* it raises when _process_scenarios does or when a scenario holds a name
\* twice (pandas cannot reindex a duplicated axis)
FocusProcess(k, outputs, cols) ==
    LET scenarios == GetScenarios(cols)
        res(s)    == FaultScenario(k, ScenarioOf(cols, s))
        bad(s)    == \/ ~res(s).ok
                     \/ HasDuplicates(NamesOf(ScenarioOf(cols, s)))
    IN  IF outputs = <<>> \/ \E x \in 1..Len(scenarios) : bad(scenarios[x])
        THEN Raised    \* (no catalog stage leaves a FocusStage without outputs)
        ELSE Done(Flatten([x \in 1..Len(scenarios) |->
                             ReindexTo(scenarios[x], res(scenarios[x]).cols, outputs)]))

\* stage._process_timeline, by class
Process(k, outputs, cols) ==
    CASE k.type = "Clip"           -> ClipProcess(k, cols)
      [] k.type = "Rename"         -> RenameProcess(k, cols)
      [] k.type = "Drop"           -> DropProcess(k, cols)
      [] k.type = "RepeatScenario" -> RepeatProcess(k, cols)
      [] k.type = "Fault"          -> FocusProcess(k, outputs, cols)

(* --------------------------- input timelines -------------------------- *)

SignalNames == <<"a", "b", "quantity">>

NameLists == { <<"a">>, <<"a", "b">>, <<"quantity">>, <<"quantity", "a">> }

\* the data of the input timelines: a different value in every cell
Cell(s, nm, t) ==
    LET x == CHOOSE y \in 1..Len(SignalNames) : SignalNames[y] = nm
    IN  9 * s + 3 * (x - 1) + t

\* a timeline in the documented layout: scenarios 0..nb-1, every scenario
\* with the same names in the same order; flat = no scenario level
MakeTable(flat, nb, names) ==
    [flat |-> flat,
     cols |-> Flatten([s \in 1..nb |->
                [x \in 1..Len(names) |->
                    Col(s - 1, names[x], [t \in 1..Horizon |-> Cell(s - 1, names[x], t)])]])]

InputTables ==
    {MakeTable(FALSE, nb, nl) : nb \in 1..MaxScn, nl \in NameLists}
        \cup {MakeTable(TRUE, 1, nl) : nl \in NameLists}

NoTable == [flat |-> FALSE, cols |-> <<>>]

(* ---------------------------- state machine --------------------------- *)

\* no study is being solved
SolverIdle ==
    /\ study = <<>> /\ cpu = 0 /\ pc = "idle" /\ call = <<>> /\ batches = <<>>
    /\ worker = <<>> /\ handed = <<>> /\ posts = <<>> /\ outcome = <<>>
    /\ analysis = <<>>

\* no actor is handling a message
ActorIdle == mem = <<>> /\ act = <<>> /\ ran = <<>>

NoAdd == [done |-> FALSE, i |-> 0, j |-> 0, err |-> FALSE]
NoOut == [status |-> "none", stage |-> 0, arg |-> NoTable, steps |-> <<>>, trace |-> <<>>]

\* the lists and plugs of freshly constructed stages of kinds ks
NewHeap(ks) ==
    [x \in 1..(2 * Cardinality(Stages)) |->
        IF x % 2 = 1 THEN InitInputs(ks[(x + 1) \div 2]) ELSE InitOutputs(ks[x \div 2])]

NewPlugs(ks) ==
    [i \in Stages |->
        [free |-> IsFreeKind(ks[i]), inputs |-> 2 * i - 1, outputs |-> 2 * i]]

\* the stages are built from the catalog (stage names carry no meaning: the
\* catalog entries are taken in nondecreasing order), each with its own plug
\* on two lists of its own
Init ==
    /\ \E f \in [Stages -> 1..Len(Catalog)] :
          /\ \A i, j \in Stages : i < j => f[i] <= f[j]
          /\ kind = [i \in Stages |-> Catalog[f[i]]]
    /\ heap = NewHeap(kind)
    /\ plug = NewPlugs(kind)
    /\ next_computes = [i \in Stages |-> <<>>]
    /\ comp = [i \in Stages |-> <<i>>]
    /\ nadds = 0
    /\ lastAdd = NoAdd
    /\ prev = [heap |-> heap, plug |-> plug, next_computes |-> next_computes]
    /\ table = NoTable
    /\ out = NoOut
    /\ SolverIdle
    /\ ActorIdle

\* a right operand that is not a Stage
NotAStage == 0

\* an __add__ that links first and checks the plugs afterwards
StageAddUnchecked(h, pl, nx, i, j) ==
    IF j \notin DOMAIN pl
    THEN [err |-> TRUE, heap |-> h, plug |-> pl, next_computes |-> nx]
    ELSE LET r == PlugAdd(h, pl[i], pl[j])
         IN  [err |-> ~LinkableTo(h, pl[i], pl[j]), heap |-> r.heap,
              plug |-> [pl EXCEPT ![i] = r.plug],
              next_computes |-> [nx EXCEPT ![i] = Append(@, j)]]

\* Stage.__add__(self = i, other = j) on the objects (h, pl, nx): the
\* isinstance check, the link check, then self.plug += other.plug and the
\* append of the bound method other._process_timeline
StageAdd(h, pl, nx, i, j) ==
    IF j \notin DOMAIN pl
    THEN [err |-> TRUE, heap |-> h, plug |-> pl, next_computes |-> nx]
    ELSE IF ~LinkableTo(h, pl[i], pl[j])
    THEN [err |-> TRUE, heap |-> h, plug |-> pl, next_computes |-> nx]
    ELSE LET r == PlugAdd(h, pl[i], pl[j])
         IN  [err |-> FALSE, heap |-> r.heap,
              plug |-> [pl EXCEPT ![i] = r.plug],
              next_computes |-> [nx EXCEPT ![i] = Append(@, j)]]

\* A + B, B a stage or not (lastAdd.done: B was a stage and the plugs were
\* checked).  A compute changes no stage, so the additions that
\* follow one are the additions without it: they are explored from the
\* state before the compute only.  A B that is not a stage is tried on a
\* fresh stage or on the pipeline the last addition built, and nadds counts
\* the additions of two stages.  comp records the expression: the stages
\* of the pipeline in composition order.
Add(i, j) ==
    /\ nadds < MaxAdds
    /\ out.status = "none"
    /\ i # j
    /\ j = NotAStage => \/ lastAdd = NoAdd
                        \/ lastAdd.done /\ ~lastAdd.err /\ i = lastAdd.i
    /\ nadds' = IF j = NotAStage THEN nadds ELSE nadds + 1
    /\ prev' = [heap |-> heap, plug |-> plug, next_computes |-> next_computes]
    /\ table' = NoTable
    /\ out' = NoOut
    /\ kind' = kind
    /\ LET r == StageAdd(heap, plug, next_computes, i, j)
       IN  /\ heap' = r.heap
           /\ plug' = r.plug
           /\ next_computes' = r.next_computes
           /\ comp' = IF r.err THEN comp ELSE [comp EXCEPT ![i] = @ \o comp[j]]
           /\ lastAdd' = [done |-> j # NotAStage, i |-> i, j |-> j, err |-> r.err]
    /\ UNCHANGED solverVars
    /\ UNCHANGED actorVars

RECURSIVE RunSteps(_, _, _, _)
\* the loop of Stage.compute: every queued _process_timeline on a copy of
\* the previous result, until one raises
RunSteps(queue, cols, steps, trace) ==
    IF queue = <<>> THEN [status |-> "ok", steps |-> steps, trace |-> trace]
    ELSE LET j == Head(queue)
             r == Process(kind[j], heap[plug[j].outputs], cols)
         IN  IF ~r.ok
             THEN [status |-> "raised", steps |-> steps, trace |-> Append(trace, j)]
             ELSE RunSteps(Tail(queue), r.cols, Append(steps, r.cols), Append(trace, j))

\* Stage.compute(self = i, timeline = tbl).  After A + 3 raised, the stage
\* explored is A: the others are as they were in the state before.
Compute(i, tbl) ==
    /\ out.status = "none"
    /\ (lastAdd.err /\ ~lastAdd.done) => i = lastAdd.i
    /\ table' = [flat |-> FALSE, cols |-> tbl.cols]
    /\ out' =
         IF ~Computable(heap, plug[i], GetNames(tbl.cols))
         THEN [status |-> "rejected", stage |-> i, arg |-> tbl, steps |-> <<>>, trace |-> <<>>]
         ELSE LET r == RunSteps(<<i>> \o next_computes[i], tbl.cols, <<>>, <<>>)
              IN  [status |-> r.status, stage |-> i, arg |-> tbl,
                   steps |-> r.steps, trace |-> r.trace]
    /\ UNCHANGED <<heap, plug, next_computes, kind, comp, nadds, lastAdd, prev>>
    /\ UNCHANGED solverVars
    /\ UNCHANGED actorVars

Next ==
    \/ \E i \in Stages : \E j \in Stages \cup {NotAStage} : Add(i, j)
    \/ \E i \in Stages : \E tbl \in InputTables : Compute(i, tbl)

Spec == Init /\ [][Next]_vars

(* ------------------------- plug composition --------------------------- *)

\* the operands of the last A + B as they were before it, and its result
PreA == prev.plug[lastAdd.i]
PreB == prev.plug[lastAdd.j]
PreInputs(p) == Range(prev.heap[p.inputs])
PreOutputs(p) == Range(prev.heap[p.outputs])
Sum == plug[lastAdd.i]

\* C1: for two RestrictedPlugs A and B, A is linkable to B iff every name of
\* B.inputs is in A.outputs, and then A + B is a RestrictedPlug with the
\* inputs of A and, as a set, the outputs B.outputs \cup (A.outputs \ B.inputs)
C1_RestrictedComposition ==
    (lastAdd.done /\ ~PreA.free /\ ~PreB.free) =>
        /\ ~lastAdd.err <=> (PreInputs(PreB) \subseteq PreOutputs(PreA))
        /\ ~lastAdd.err =>
              /\ ~Sum.free
              /\ heap[Sum.inputs] = prev.heap[PreA.inputs]
              /\ Range(heap[Sum.outputs]) =
                    PreOutputs(PreB) \cup (PreOutputs(PreA) \ PreInputs(PreB))

\* two RestrictedPlugs were composed and an output of A, unused by B, was kept
C1_Witness ==
    /\ lastAdd.done /\ ~lastAdd.err /\ ~PreA.free /\ ~PreB.free
    /\ PreOutputs(PreA) \ PreInputs(PreB) # {}
    /\ PreOutputs(PreA) \cap PreInputs(PreB) # {}

\* C2: with a FreePlug among A and B the composition is always allowed; it
\* is Free without inputs and outputs when both are Free, has the inputs and
\* outputs of B when only A is Free, and those of A when only B is Free
C2_FreeComposition ==
    (lastAdd.done /\ (PreA.free \/ PreB.free)) =>
        /\ ~lastAdd.err
        /\ (PreA.free /\ PreB.free) =>
              Sum.free /\ heap[Sum.inputs] = <<>> /\ heap[Sum.outputs] = <<>>
        /\ (PreA.free /\ ~PreB.free) =>
              /\ ~Sum.free
              /\ heap[Sum.inputs] = prev.heap[PreB.inputs]
              /\ heap[Sum.outputs] = prev.heap[PreB.outputs]
        /\ (~PreA.free /\ PreB.free) =>
              /\ ~Sum.free
              /\ heap[Sum.inputs] = prev.heap[PreA.inputs]
              /\ heap[Sum.outputs] = prev.heap[PreA.outputs]

\* a FreePlug was composed with a RestrictedPlug that has inputs and outputs
C2_Witness ==
    /\ lastAdd.done /\ PreA.free /\ ~PreB.free
    /\ prev.heap[PreB.inputs] # <<>> /\ prev.heap[PreB.outputs] # <<>>

\* C3: A + B of two stages fails exactly when both plugs are Restricted and
\* a name of B.plug.inputs is missing from the current outputs of A's plug;
\* otherwise it succeeds and B's transform is queued behind A
C3_LinkError ==
    lastAdd.done =>
        /\ lastAdd.err <=>
              /\ ~PreA.free /\ ~PreB.free
              /\ \E nm \in PreInputs(PreB) : nm \notin PreOutputs(PreA)
        /\ ~lastAdd.err =>
              next_computes[lastAdd.i] =
                  Append(prev.next_computes[lastAdd.i], lastAdd.j)

\* an addition failed
C3_Witness == lastAdd.done /\ lastAdd.err

\* C10: A + B of two plugs leaves the inputs and outputs of A and B as they
\* were and returns a plug that shares no list with A or B
C10_FreshPlug ==
    (lastAdd.done /\ ~lastAdd.err) =>
        LET old == {PreA.inputs, PreA.outputs, PreB.inputs, PreB.outputs}
        IN  /\ \A l \in old : heap[l] = prev.heap[l]
            /\ {Sum.inputs, Sum.outputs} \cap old = {}

(* ------------------------------ compute ------------------------------ *)

\* the timeline a step of the last compute received, and the one returned
StepInput(x) == IF x = 1 THEN out.arg.cols ELSE out.steps[x - 1]
Returned == out.steps[Len(out.steps)]

ScnSet(cols) == {cols[c].scn : c \in 1..Len(cols)}
NameSet(cols, s) == {cols[c].name : c \in {d \in 1..Len(cols) : cols[d].scn = s}}

\* the columns of scenario s without their scenario label
DataOf(cols, s) ==
    LET sc == ScenarioOf(cols, s)
    IN  [c \in 1..Len(sc) |-> <<sc[c].name, sc[c].vals>>]

\* the documented layout: scenarios 0..nb-1 in order, each with the same
\* distinct names in the same order
WellFormed(cols) ==
    LET nms == GetNames(cols)
        nn  == Len(nms)
        nb  == Cardinality(ScnSet(cols))
    IN  /\ nn > 0
        /\ Len(cols) = nb * nn
        /\ \A c \in 1..Len(cols) :
              cols[c].scn = (c - 1) \div nn /\ cols[c].name = nms[((c - 1) % nn) + 1]

\* C6: RepeatScenario(n) on a timeline of nb_scn scenarios returns one of
\* n * nb_scn scenarios 0..n*nb_scn-1 where scenario k carries the data of
\* scenario k mod nb_scn; its first nb_scn scenarios are the original
C6_RepeatScenario ==
    \A x \in 1..Len(out.trace) :
        LET k  == kind[out.trace[x]]
            in == StepInput(x)
            nb == Cardinality(ScnSet(in))
        IN  (k.type = "RepeatScenario" /\ WellFormed(in)) =>
              /\ x <= Len(out.steps)
              /\ LET res == out.steps[x]
                 IN  /\ GetScenarios(res) = [s \in 1..(k.n * nb) |-> s - 1]
                     /\ \A s \in 0..(k.n * nb - 1) :
                           DataOf(res, s) = DataOf(in, s % nb)
                     /\ SelectSeq(res, LAMBDA c : c.scn < nb) = in

\* RepeatScenario ran on a timeline of two scenarios with two signals each
C6_Witness ==
    \E x \in 1..Len(out.steps) :
        /\ kind[out.trace[x]].type = "RepeatScenario"
        /\ WellFormed(StepInput(x))
        /\ Cardinality(ScnSet(StepInput(x))) = 2
        /\ Len(GetNames(StepInput(x))) = 2
        /\ Len(out.steps[x]) = 2 * Len(StepInput(x))

\* the stage of the last compute, and the plug it was constructed with
Head0 == out.stage
OwnInputs(i) == Range(InitInputs(kind[i]))
OwnOutputs(i) == Range(InitOutputs(kind[i]))

\* (x + y) + z and x + (y + z) of freshly built stages of the kinds at hand
Fresh == [err |-> FALSE, heap |-> NewHeap(kind), plug |-> NewPlugs(kind),
          next_computes |-> [i \in Stages |-> <<>>]]
Then(w, i, j) ==
    IF w.err THEN w ELSE StageAdd(w.heap, w.plug, w.next_computes, i, j)
LeftNested(x, y, z) == Then(Then(Fresh, x, y), x, z)
RightNested(x, y, z) == Then(Then(Fresh, y, z), x, y)

\* C4: (A + B) + C and A + (B + C) have the same composed plug, and compute
\* applies A's, then B's, then C's transform, each exactly once
C4_Associative ==
    /\ \A x, y, z \in Stages :
          LET l == LeftNested(x, y, z)
              r == RightNested(x, y, z)
          IN  (x # y /\ y # z /\ x # z /\ ~l.err /\ ~r.err) =>
                /\ Range(l.heap[l.plug[x].inputs]) = Range(r.heap[r.plug[x].inputs])
                /\ Range(l.heap[l.plug[x].outputs]) = Range(r.heap[r.plug[x].outputs])
    /\ (out.status = "ok" /\ Len(comp[Head0]) = 3) => out.trace = comp[Head0]

\* C5: on every timeline it accepts, Rename({a: b}) + Rename({b: a}) returns
\* in every scenario the set of signal names it received
C5_RenameRoundTrip ==
    ( /\ out.status \in {"ok", "raised"}
      /\ Len(comp[Head0]) = 2
      /\ kind[Head0] = RenameAB
      /\ kind[comp[Head0][2]] = RenameBA ) =>
        /\ out.status = "ok"
        /\ \A s \in ScnSet(out.arg.cols) :
              NameSet(Returned, s) = NameSet(out.arg.cols, s)

\* C7: a stage with a RestrictedPlug, alone or head of a pipeline, returns
\* in every scenario the signals (incoming \ plug.inputs) \cup plug.outputs
\* and passes the signals outside plug.inputs through unchanged
C7_RestrictedContract ==
    (out.status \in {"ok", "raised"} /\ ~IsFreeKind(kind[Head0])) =>
        /\ Len(out.steps) >= 1
        /\ LET in  == out.arg.cols
               res == out.steps[1]
           IN  /\ \A s \in ScnSet(in) :
                     NameSet(res, s) =
                        (NameSet(in, s) \ OwnInputs(Head0)) \cup OwnOutputs(Head0)
               /\ \A c \in 1..Len(in) :
                     in[c].name \notin OwnInputs(Head0) =>
                        \E d \in 1..Len(res) : res[d] = in[c]

\* C8: a Fault of occurrence frequency 0 returns the timeline it received,
\* whatever the scenarios and the other signals
C8_FaultIdentity ==
    ( /\ out.status # "none"
      /\ comp[Head0] = <<Head0>>
      /\ kind[Head0].type = "Fault" /\ kind[Head0].occur_freq = 0
      /\ "quantity" \in Range(NamesOf(out.arg.cols)) ) =>
        out.status = "ok" /\ Returned = out.arg.cols

\* C9: compute raises before any transform when an input of the head
\* stage's plug is missing from the timeline, and otherwise applies all the
\* stage transforms in composition order
C9_ComputeCheck ==
    out.status # "none" =>
        IF \E nm \in Range(heap[plug[Head0].inputs]) :
              nm \notin Range(NamesOf(out.arg.cols))
        THEN out.status = "rejected" /\ out.trace = <<>>
        ELSE out.trace = comp[Head0]

\* C11: A + B leaves the left operand as it was: A keeps the plug and the
\* queue it had, so that a pipeline A + C built after A + B runs A then C
C11_LeftOperandUsable ==
    /\ (lastAdd.done /\ ~lastAdd.err) =>
          /\ next_computes[lastAdd.i] = prev.next_computes[lastAdd.i]
          /\ Sum.free = PreA.free
          /\ heap[Sum.inputs] = prev.heap[PreA.inputs]
          /\ heap[Sum.outputs] = prev.heap[PreA.outputs]
    /\ (lastAdd.done /\ ~lastAdd.err /\ out.status = "ok" /\ Head0 = lastAdd.i) =>
          out.trace = <<lastAdd.i, lastAdd.j>>

(***************************************************************************)
(* hadar LP solver (src/hadar/solver/lp/solver.py) and the solve facade    *)
(* (src/hadar/solver/study.py).                                            *)
(*                                                                         *)
(* A python list is a sequence whose index i is position i + 1; a dict is  *)
(* a function.  A solver variable is named by the element it was created   *)
(* for; a constraint is its two bounds and its coefficients.               *)
(***************************************************************************)

(* ------------------------------ bounds -------------------------------- *)

\* scenarios of a study
MaxNbScn == 3
\* horizon of a study
MaxStudyHorizon == 2
\* multiprocessing.cpu_count()
MaxCpu == 3
\* largest value of a solver variable in the assignments examined
MaxValue == 1

(* ------------------------------- study -------------------------------- *)

EmptyDict == [x \in {} |-> 0]

\* the quantity matrix of an element of the studies below: base quantity q
\* at (scn, t)
Qty(q, scn, t) == q + scn + 2 * t

Consumption(n, c, q) == [name |-> n, cost |-> c, quantity |-> q]
Production(n, c, q) == [name |-> n, cost |-> c, quantity |-> q]
Border(d, c, q) == [dest |-> d, cost |-> c, quantity |-> q]
Storage(n, cin, cout) == [name |-> n, cost_in |-> cin, cost_out |-> cout]
Node(n, cs, ps, bs, ss) ==
    [name |-> n, consumptions |-> cs, productions |-> ps, borders |-> bs, storages |-> ss]

\* the networks of the studies, nodes in insertion order
Networks ==
    { << Node("a", <<Consumption("load", 9, 2)>>, <<Production("prod", 1, 3)>>, <<>>, <<>>) >>,
      << Node("a", <<Consumption("load", 9, 2), Consumption("car", 8, 1)>>,
                   <<Production("prod", 1, 3)>>, <<Border("b", 2, 1)>>, <<>>),
         Node("b", <<Consumption("load", 9, 1)>>, <<>>, <<Border("a", 3, 2)>>, <<>>) >>,
      << Node("a", <<Consumption("load", 9, 2)>>, <<Production("prod", 1, 3)>>, <<>>,
                   <<Storage("store", 1, 2)>>) >> }

Studies ==
    { [nb_scn |-> n, horizon |-> h, nodes |-> nw] :
        n \in 1..MaxNbScn, h \in 1..MaxStudyHorizon, nw \in Networks }

NodeNames(st) == {st.nodes[k].name : k \in 1..Len(st.nodes)}

(* ---------------------------- input mapper ---------------------------- *)

\* the decision variable "{scn}:{t}:{node}:{kind}:{name}"
Variable(scn, t, node, knd, nm) ==
    [scn |-> scn, t |-> t, node |-> node, kind |-> knd, name |-> nm]

\* InputMapper.get_var(name, t, scn): the LP records of one node at (scn, t),
\* each with a variable of its own
GetVar(node, t, scn) ==
    [consumptions |->
        [k \in 1..Len(node.consumptions) |->
            LET e == node.consumptions[k]
            IN  [type |-> e.name, cost |-> e.cost, quantity |-> Qty(e.quantity, scn, t),
                 variable |-> Variable(scn, t, node.name, "consumption", e.name)]],
     productions |->
        [k \in 1..Len(node.productions) |->
            LET e == node.productions[k]
            IN  [type |-> e.name, cost |-> e.cost, quantity |-> Qty(e.quantity, scn, t),
                 variable |-> Variable(scn, t, node.name, "production", e.name)]],
     borders |->
        [k \in 1..Len(node.borders) |->
            LET e == node.borders[k]
            IN  [src |-> node.name, dest |-> e.dest, cost |-> e.cost,
                 quantity |-> Qty(e.quantity, scn, t),
                 variable |-> Variable(scn, t, node.name, "link", e.dest)]],
     storages |->
        [k \in 1..Len(node.storages) |->
            LET e == node.storages[k]
            IN  [name |-> e.name, cost_in |-> e.cost_in, cost_out |-> e.cost_out,
                 var_in |-> Variable(scn, t, node.name, "flow_in", e.name),
                 var_out |-> Variable(scn, t, node.name, "flow_out", e.name)]]]

\* the variables of a sequence of LP records
Variables(recs) == {recs[k].variable : k \in 1..Len(recs)}

(* ------------------------- objective builder -------------------------- *)

\* SetCoefficient(variable, k) for every variable of vs
SetCoefficients(coef, vs, k) ==
    [v \in (DOMAIN coef) \cup vs |-> IF v \in vs THEN k ELSE coef[v]]

\* SetCoefficient(rec.variable, rec.cost) for every record, in order
SetCosts(coef, recs) ==
    [v \in (DOMAIN coef) \cup Variables(recs) |->
        IF v \in Variables(recs)
        THEN LET last == CHOOSE k \in 1..Len(recs) :
                            /\ recs[k].variable = v
                            /\ \A m \in (k + 1)..Len(recs) : recs[m].variable # v
             IN  recs[last].cost
        ELSE coef[v]]

\* ObjectiveBuilder.__init__
NewObjective == [minimization |-> TRUE, coef |-> EmptyDict]

\* ObjectiveBuilder.add_node: consumptions, productions, borders
ObjectiveAddNode(ob, node) ==
    [ob EXCEPT !.coef =
        SetCosts(SetCosts(SetCosts(@, node.consumptions), node.productions), node.borders)]

(* -------------------------- adequacy builder -------------------------- *)

\* AdequacyBuilder.__init__: a dict of constraints and a list of borders
\* for each of the horizon * nb_scn slots
NewAdequacy(horizon, nb_scn) ==
    [horizon |-> horizon,
     constraints |-> [i \in 1..(horizon * nb_scn) |-> EmptyDict],
     borders |-> [i \in 1..(horizon * nb_scn) |-> <<>>]]

\* solver.Constraint(lb, ub)
Constraint(lb, ub) == [lb |-> lb, ub |-> ub, coef |-> EmptyDict]

RECURSIVE SumSeq(_)
SumSeq(q) == IF q = <<>> THEN 0 ELSE Head(q) + SumSeq(Tail(q))

\* the slot of (scn, t)
Slot(horizon, t, scn) == t + horizon * scn

\* an add_node that counts the borders of the node as productions
AdequacyAddNodeImports(ad, name, t, node, scn) ==
    LET i == Slot(ad.horizon, t, scn)
        load == SumSeq([k \in 1..Len(node.consumptions) |-> node.consumptions[k].quantity])
        coef == SetCoefficients(
                    SetCoefficients(
                        SetCoefficients(EmptyDict, Variables(node.consumptions), 1),
                        Variables(node.productions), 1),
                    Variables(node.borders), 1)
    IN  IF i >= Len(ad.constraints) THEN [err |-> "IndexError", ad |-> ad]
        ELSE [err |-> "",
              ad |-> [ad EXCEPT
                        !.constraints[i + 1] =
                            [n \in (DOMAIN @) \cup {name} |->
                                IF n = name THEN [Constraint(load, load) EXCEPT !.coef = coef]
                                ELSE @[n]],
                        !.borders[i + 1] = @ \o node.borders]]

\* AdequacyBuilder.add_node: the constraint load <= ... <= load of the node
\* in slot i, +1 on its consumption and production variables, its borders
\* registered in slot i with -1; list index out of range raises IndexError
AdequacyAddNode(ad, name, t, node, scn) ==
    LET i == Slot(ad.horizon, t, scn)
        load == SumSeq([k \in 1..Len(node.consumptions) |-> node.consumptions[k].quantity])
        coef == SetCoefficients(
                    SetCoefficients(
                        SetCoefficients(EmptyDict, Variables(node.consumptions), 1),
                        Variables(node.productions), 1),
                    Variables(node.borders), -1)
    IN  IF i >= Len(ad.constraints) THEN [err |-> "IndexError", ad |-> ad]
        ELSE [err |-> "",
              ad |-> [ad EXCEPT
                        !.constraints[i + 1] =
                            [n \in (DOMAIN @) \cup {name} |->
                                IF n = name THEN [Constraint(load, load) EXCEPT !.coef = coef]
                                ELSE @[n]],
                        !.borders[i + 1] = @ \o node.borders]]

RECURSIVE WireSlot(_, _)
\* the inner loop of AdequacyBuilder.build on one slot: +1 on the border
\* variable in the constraint of the destination; KeyError without one
WireSlot(dict, bords) ==
    IF bords = <<>> THEN [err |-> "", dict |-> dict]
    ELSE LET b == Head(bords)
         IN  IF b.dest \notin DOMAIN dict THEN [err |-> "KeyError", dict |-> dict]
             ELSE WireSlot([dict EXCEPT ![b.dest].coef = SetCoefficients(@, {b.variable}, 1)],
                           Tail(bords))

\* a build that needs nothing at the end, as ObjectiveBuilder.build
AdequacyBuildPass(ad) == [err |-> "", ad |-> ad]

\* AdequacyBuilder.build
AdequacyBuild(ad) ==
    LET wired == [i \in 1..Len(ad.constraints) |-> WireSlot(ad.constraints[i], ad.borders[i])]
    IN  IF \E i \in 1..Len(wired) : wired[i].err # ""
        THEN [err |-> "KeyError", ad |-> ad]
        ELSE [err |-> "", ad |-> [ad EXCEPT !.constraints = [i \in 1..Len(wired) |-> wired[i].dict]]]

(* ----------------------------- _solve_batch --------------------------- *)

\* loops nested the other way round: nodes, then timesteps, then the
\* scenarios of the batch
IterationsByNode(st, batch) ==
    LET m == Len(batch)
        h == st.horizon
    IN  [k \in 1..(Len(st.nodes) * h * m) |->
            [scn |-> batch[((k - 1) % m) + 1],
             t |-> ((k - 1) \div m) % h,
             node |-> ((k - 1) \div (h * m)) + 1]]

\* the iterations of the three nested loops, in order: scenarios of the
\* batch, then timesteps, then nodes in insertion order
Iterations(st, batch) ==
    LET n == Len(st.nodes)
        h == st.horizon
    IN  [k \in 1..(Len(batch) * h * n) |->
            [scn |-> batch[((k - 1) \div (h * n)) + 1],
             t |-> ((k - 1) \div n) % h,
             node |-> ((k - 1) % n) + 1]]

\* variables = [[dict() for _ in range(horizon)] for _ in range(nb_scn)]
NewVariables(st) == [s \in 1..st.nb_scn |-> [t \in 1..st.horizon |-> EmptyDict]]

RECURSIVE BuildLoop(_, _, _)
\* the body of the loops: get_var, adequacy.add_node, objective.add_node;
\* an exception ends the batch
BuildLoop(st, todo, w) ==
    IF todo = <<>> THEN w
    ELSE LET x == Head(todo)
             name == st.nodes[x.node].name
             lp == GetVar(st.nodes[x.node], x.t, x.scn)
             a == AdequacyAddNode(w.adequacy, name, x.t, lp, x.scn)
         IN  IF a.err # ""
             THEN [w EXCEPT !.err = a.err, !.log = Append(@, [scn |-> x.scn, t |-> x.t, name |-> name])]
             ELSE BuildLoop(st, Tail(todo),
                    [w EXCEPT
                       !.variables[x.scn + 1][x.t + 1] =
                           [n \in (DOMAIN @) \cup {name} |-> IF n = name THEN lp ELSE @[n]],
                       !.adequacy = a.ad,
                       !.objective = ObjectiveAddNode(@, lp),
                       !.log = Append(@, [scn |-> x.scn, t |-> x.t, name |-> name])])

\* the calls _solve_batch has made on its builders when n iterations of the
\* loops were entered and the step after the loops was reached or not
Calls(n, built) ==
    [k \in 1..n |-> "adequacy.add_node"]
        \o (IF built THEN <<"objective.build", "adequacy.build">> ELSE <<>>)

\* _solve_batch((study, scenarios)) up to solver.Solve(): a solver, an
\* objective and an adequacy builder of its own (AdequacyBuilder is given
\* the horizon only, so nb_scn is its default 1), the loops, then
\* objective.build() and adequacy.build()
BuildProblem(st, batch) ==
    LET w0 == [err |-> "", variables |-> NewVariables(st),
               adequacy |-> NewAdequacy(st.horizon, 1),
               objective |-> NewObjective, log |-> <<>>]
        w == BuildLoop(st, Iterations(st, batch), w0)
        b == AdequacyBuild(w.adequacy)
    IN  IF w.err # ""
        THEN [state |-> "raised", err |-> w.err, variables |-> w.variables, added |-> w.adequacy,
              adequacy |-> w.adequacy, objective |-> w.objective, log |-> w.log,
              calls |-> Calls(Len(w.log), FALSE), status |-> "none"]
        ELSE IF b.err # ""
        THEN [state |-> "raised", err |-> b.err, variables |-> w.variables, added |-> w.adequacy,
              adequacy |-> w.adequacy, objective |-> w.objective, log |-> w.log,
              calls |-> Calls(Len(w.log), TRUE), status |-> "none"]
        ELSE [state |-> "built", err |-> "", variables |-> w.variables, added |-> w.adequacy,
              adequacy |-> b.ad, objective |-> w.objective, log |-> w.log,
              calls |-> Calls(Len(w.log), TRUE), status |-> "none"]

\* a worker that has not run yet
Pending ==
    [state |-> "pending", err |-> "", variables |-> <<>>, added |-> <<>>, adequacy |-> <<>>,
     objective |-> <<>>, log |-> <<>>, calls |-> <<>>, status |-> "none"]

\* the result status of solver.Solve()
SolverStatuses == {"OPTIMAL", "INFEASIBLE", "ABNORMAL"}

(* -------------------------------- _solve ------------------------------ *)

\* np.array_split(np.arange(n), parts) with every section of n // parts
ArraySplitFloor(n, parts) ==
    [k \in 1..parts |-> [m \in 1..(n \div parts) |-> (k - 1) * (n \div parts) + m - 1]]

\* np.array_split(np.arange(n), parts): n % parts sections of n // parts + 1
\* then sections of n // parts, cut at the cumulated sizes
ArraySplit(n, parts) ==
    LET each == n \div parts
        extras == n % parts
        size(k) == IF k <= extras THEN each + 1 ELSE each
        start(k) == (k - 1) * each + Min2(k - 1, extras)
    IN  [k \in 1..parts |-> [m \in 1..size(k) |-> start(k) + m - 1]]

RECURSIVE Reduce(_, _)
\* reduce(lambda a, b: a + b if b == list(list(dict())) else a, res), from
\* the accumulator a over the remaining results
Reduce(a, rest) ==
    IF rest = <<>> THEN a
    ELSE Reduce(IF Head(rest) = <<>> THEN a \o Head(rest) ELSE a, Tail(rest))

\* the set_var loop of _solve: scenarios, timesteps, nodes
Records(st) == Iterations(st, [k \in 1..st.nb_scn |-> k - 1])

\* variables[scn][t][name] is there
Present(variables, st, x) ==
    st.nodes[x.node].name \in DOMAIN variables[x.scn + 1][x.t + 1]

\* the calls out_mapper.set_var(name, t, scn, vars) made until
\* variables[scn][t][name] raises KeyError
SetVars(variables, st) ==
    LET recs == Records(st)
        bad == {k \in 1..Len(recs) : ~Present(variables, st, recs[k])}
        n == IF bad = {} THEN Len(recs) ELSE (CHOOSE k \in bad : \A m \in bad : k <= m) - 1
    IN  [err |-> IF bad = {} THEN "" ELSE "KeyError",
         calls |-> [k \in 1..n |->
                      [scn |-> recs[k].scn, t |-> recs[k].t, name |-> st.nodes[recs[k].node].name,
                       vars |-> variables[recs[k].scn + 1][recs[k].t + 1][st.nodes[recs[k].node].name]]]]

(* ------------------------------- solve -------------------------------- *)

\* the values of kind a caller passes
Kinds == {"lp", "remote", "actor", "glpk"}

\* the remote options a caller passes
Options == {[url |-> "localhost", token |-> "pwd"], [url |-> "hadar.io", token |-> "key"]}

\* a solve that takes every kind but remote and actor for lp
BackendLpByDefault(k) ==
    IF k = "actor" THEN "actor" ELSE IF k = "remote" THEN "remote" ELSE "lp"

\* solve(study, kind): the solver the facade calls, or the error it raises
Backend(k) ==
    IF k = "actor" THEN "actor"
    ELSE IF k = "lp" THEN "lp"
    ELSE IF k = "remote" THEN "remote"
    ELSE "ValueError"

\* pickle.dumps and pickle.loads
Serialize(x) == [pickled |-> x]
Deserialize(b) == b.pickled

\* the status codes a server answers with
HttpCodes == {200, 403, 404, 500, 503}

\* the Result a server computes for a study
RemoteResult(st) == [nodes |-> NodeNames(st)]

\* what solve gave its caller: a Result or an exception; code is the status
\* code of the answer of a remote solve
NoOutcome == [kind |-> "none", error |-> "", value |-> <<>>, code |-> 0]
Failure(e) == [kind |-> "error", error |-> e, value |-> <<>>, code |-> 0]
Success(v) == [kind |-> "result", error |-> "", value |-> v, code |-> 0]

\* a remote solve that returns the body of every answer
RemoteOutcomeUnchecked(code, content) == Success(Deserialize(content))

\* the remote solve after the POST: the outcome for a status code
RemoteOutcome(code, content) ==
    IF code = 200 THEN Success(Deserialize(content))
    ELSE IF code \in {403, 404} THEN Failure("AuthError")
    ELSE IF code >= 500 /\ code <= 599 THEN Failure("RemoteIOError")
    ELSE Failure("unspecified")

\* no pipeline is being built
PipelineIdle ==
    /\ heap = <<>> /\ plug = <<>> /\ next_computes = <<>> /\ kind = <<>> /\ comp = <<>>
    /\ nadds = 0 /\ lastAdd = NoAdd /\ prev = <<>> /\ table = NoTable /\ out = NoOut

SolveInit ==
    /\ study \in Studies
    /\ cpu \in 1..MaxCpu
    /\ pc = "idle"
    /\ call = <<>>
    /\ batches = <<>>
    /\ worker = <<>>
    /\ handed = <<>>
    /\ posts = <<>>
    /\ outcome = NoOutcome
    /\ analysis = <<>>
    /\ PipelineIdle
    /\ ActorIdle

\* solve(study, kind, **kwargs) up to the first suspension: _solve splits
\* the scenarios and maps the batches on the pool; the remote solve POSTs
Solve(k, opts) ==
    /\ pc = "idle"
    /\ call' = [kind |-> k, url |-> opts.url, token |-> opts.token]
    /\ pc' = IF Backend(k) = "ValueError" THEN "failed" ELSE Backend(k)
    /\ outcome' = IF Backend(k) = "ValueError" THEN Failure("ValueError") ELSE outcome
    /\ batches' = IF Backend(k) = "lp" THEN ArraySplit(study.nb_scn, cpu) ELSE batches
    /\ worker' = IF Backend(k) = "lp" THEN [b \in 1..cpu |-> Pending] ELSE worker
    /\ posts' = IF Backend(k) = "remote"
                THEN Append(posts, [url |-> opts.url, data |-> Serialize(study),
                                    params |-> [token |-> opts.token]])
                ELSE posts
    /\ UNCHANGED <<study, cpu, handed, analysis>>
    /\ UNCHANGED pipelineVars
    /\ UNCHANGED actorVars

\* a pool worker runs _solve_batch on its batch up to solver.Solve()
BuildBatch(b) ==
    /\ pc = "lp"
    /\ worker[b].state = "pending"
    /\ worker' = [worker EXCEPT ![b] = BuildProblem(study, batches[b])]
    /\ UNCHANGED <<study, cpu, pc, call, batches, handed, posts, outcome, analysis>>
    /\ UNCHANGED pipelineVars
    /\ UNCHANGED actorVars

\* solver.Solve() ends with a status, which _solve_batch does not read, and
\* the worker returns its variables
RunSolver(b, status) ==
    /\ pc = "lp"
    /\ worker[b].state = "built"
    /\ worker' = [worker EXCEPT ![b].state = "returned", ![b].status = status,
                                ![b].calls = Append(@, "solver.Solve")]
    /\ UNCHANGED <<study, cpu, pc, call, batches, handed, posts, outcome, analysis>>
    /\ UNCHANGED pipelineVars
    /\ UNCHANGED actorVars

\* pool.map re-raises the exception of a worker
PoolMapRaise(b) ==
    /\ pc = "lp"
    /\ worker[b].state = "raised"
    /\ pc' = "failed"
    /\ outcome' = Failure(worker[b].err)
    /\ UNCHANGED <<study, cpu, call, batches, worker, handed, posts, analysis>>
    /\ UNCHANGED pipelineVars
    /\ UNCHANGED actorVars

\* pool.map returns the results in batch order; _solve reduces them, hands
\* the variables of every (scn, t, node) to the output mapper and returns
\* its result
PoolMapReturn ==
    /\ pc = "lp"
    /\ \A b \in 1..cpu : worker[b].state = "returned"
    /\ LET res == [b \in 1..cpu |-> worker[b].variables]
           sv == SetVars(Reduce(Head(res), Tail(res)), study)
       IN  /\ handed' = sv.calls
           /\ pc' = IF sv.err = "" THEN "done" ELSE "failed"
           /\ outcome' = IF sv.err = "" THEN Success(sv.calls) ELSE Failure(sv.err)
    /\ UNCHANGED <<study, cpu, call, batches, worker, posts, analysis>>
    /\ UNCHANGED pipelineVars
    /\ UNCHANGED actorVars

\* the server answers the POST
RemoteResponse(code) ==
    /\ pc = "remote"
    /\ pc' = IF code = 200 THEN "done" ELSE "failed"
    /\ outcome' = [RemoteOutcome(code, Serialize(RemoteResult(study))) EXCEPT !.code = code]
    /\ UNCHANGED <<study, cpu, call, batches, worker, handed, posts, analysis>>
    /\ UNCHANGED pipelineVars
    /\ UNCHANGED actorVars

(* ------------------------------ analyzer ------------------------------ *)

\* the matrix [[x, x/10, x/10], [x/10, x, x]] of the analyzer's test
M(x) == << <<x, x \div 10, x \div 10>>, <<x \div 10, x, x>> >>

\* a matrix of one value
Flat(nb_scn, horizon, x) == [s \in 1..nb_scn |-> [t \in 1..horizon |-> x]]

\* the study and result of TestAnalyzer.setUp as the rows of the
\* analyzer's consumption, production and link tables
TestNetwork ==
    [nb_scn |-> 2, horizon |-> 3, nodes |-> {"a", "b", "c"},
     consumption |-> << [node |-> "a", name |-> "load", asked |-> M(120), given |-> M(20)],
                        [node |-> "a", name |-> "car", asked |-> M(130), given |-> M(30)],
                        [node |-> "b", name |-> "load", asked |-> M(120), given |-> M(20)] >>,
     production |-> << [node |-> "a", name |-> "prod", avail |-> M(130), used |-> M(30)],
                       [node |-> "b", name |-> "prod", avail |-> M(110), used |-> M(10)],
                       [node |-> "b", name |-> "nuclear", avail |-> M(120), used |-> M(20)] >>,
     link |-> << [src |-> "a", dest |-> "b", avail |-> M(110), used |-> M(10)],
                 [src |-> "a", dest |-> "c", avail |-> M(120), used |-> M(20)] >>]

\* a solved study of two nodes that exchange in both directions
RingNetwork ==
    [nb_scn |-> 1, horizon |-> 2, nodes |-> {"a", "b"},
     consumption |-> << [node |-> "a", name |-> "load", asked |-> <<<<5, 4>>>>, given |-> <<<<5, 3>>>>],
                        [node |-> "b", name |-> "load", asked |-> <<<<2, 2>>>>, given |-> <<<<2, 2>>>>] >>,
     production |-> << [node |-> "a", name |-> "prod", avail |-> <<<<3, 3>>>>, used |-> <<<<3, 3>>>>],
                       [node |-> "b", name |-> "prod", avail |-> <<<<6, 2>>>>, used |-> <<<<4, 2>>>>] >>,
     link |-> << [src |-> "b", dest |-> "a", avail |-> <<<<4, 4>>>>, used |-> <<<<3, 1>>>>],
                 [src |-> "a", dest |-> "b", avail |-> <<<<4, 4>>>>, used |-> <<<<1, 1>>>>] >>]

SolvedNetworks == {TestNetwork, RingNetwork}

\* the element-wise sum of the matrices rows[k][col] of a table
SumColumn(net, rows, col) ==
    [s \in 1..net.nb_scn |-> [t \in 1..net.horizon |->
        SumSeq([k \in 1..Len(rows) |-> rows[k][col][s][t]])]]

\* a get_balance of incoming minus outgoing flows
GetBalanceImports(net, node) ==
    LET im == SumColumn(net, SelectSeq(net.link, LAMBDA r : r.dest = node), "used")
        exp == SumColumn(net, SelectSeq(net.link, LAMBDA r : r.src = node), "used")
    IN  [s \in 1..net.nb_scn |-> [t \in 1..net.horizon |-> im[s][t] - exp[s][t]]]

\* ResultAnalyzer.get_balance(node): the used flows of the links from the
\* node minus those of the links to the node, the sign test_balance expects
GetBalance(net, node) ==
    LET im == SumColumn(net, SelectSeq(net.link, LAMBDA r : r.dest = node), "used")
        exp == SumColumn(net, SelectSeq(net.link, LAMBDA r : r.src = node), "used")
    IN  [s \in 1..net.nb_scn |-> [t \in 1..net.horizon |-> exp[s][t] - im[s][t]]]

\* a get_rac of availabilities minus asked consumptions
GetRacAsked(net) ==
    LET avail == SumColumn(net, net.production, "avail")
        asked == SumColumn(net, net.consumption, "asked")
    IN  [s \in 1..net.nb_scn |-> [t \in 1..net.horizon |-> avail[s][t] - asked[s][t]]]

\* ResultAnalyzer.get_rac(): the production left unused minus the
\* consumption left unserved, the value test_rac expects
GetRac(net) ==
    LET avail == SumColumn(net, net.production, "avail")
        used == SumColumn(net, net.production, "used")
        asked == SumColumn(net, net.consumption, "asked")
        given == SumColumn(net, net.consumption, "given")
    IN  [s \in 1..net.nb_scn |-> [t \in 1..net.horizon |->
            (avail[s][t] - used[s][t]) - (asked[s][t] - given[s][t])]]

\* ResultAnalyzer(study, result) of a solved study, asked for the balance of
\* a node and for the remaining capacity
Analyze(net, node) ==
    /\ pc = "idle"
    /\ pc' = "analyzed"
    /\ analysis' = [net |-> net, node |-> node,
                    balance |-> GetBalance(net, node), rac |-> GetRac(net)]
    /\ UNCHANGED <<study, cpu, call, batches, worker, handed, posts, outcome>>
    /\ UNCHANGED pipelineVars
    /\ UNCHANGED actorVars

SolveNext ==
    \/ \E k \in Kinds : \E opts \in Options : Solve(k, opts)
    \/ \E b \in 1..cpu : BuildBatch(b)
    \/ \E b \in 1..cpu : \E status \in SolverStatuses : RunSolver(b, status)
    \/ \E b \in 1..cpu : PoolMapRaise(b)
    \/ PoolMapReturn
    \/ \E code \in HttpCodes : RemoteResponse(code)
    \/ \E net \in SolvedNetworks : \E node \in net.nodes : Analyze(net, node)

SpecSolve == SolveInit /\ [][SolveNext]_vars

(* ---------------------------- flow balance ---------------------------- *)

RECURSIVE SumOver(_, _)
\* the sum of f[x] over the x of S
SumOver(S, f) ==
    IF S = {} THEN 0
    ELSE LET x == CHOOSE y \in S : TRUE IN f[x] + SumOver(S \ {x}, f)

\* the workers whose adequacy.build() has returned
BuiltWorkers == {b \in DOMAIN worker : worker[b].state \in {"built", "returned"}}

\* the LP records of the nodes of b's batch at (scn, t), by node name
SlotNodes(b, scn, t) == worker[b].variables[scn + 1][t + 1]

\* the constraints the builder of b holds for (scn, t), by node name
SlotConstraints(b, scn, t) ==
    worker[b].adequacy.constraints[Slot(study.horizon, t, scn) + 1]

\* every decision variable of (scn, t)
SlotVariables(lps) ==
    UNION {Variables(lps[n].consumptions) \cup Variables(lps[n].productions)
             \cup Variables(lps[n].borders)
             \cup {lps[n].storages[k].var_in : k \in 1..Len(lps[n].storages)}
             \cup {lps[n].storages[k].var_out : k \in 1..Len(lps[n].storages)}
           : n \in DOMAIN lps}

\* the assignment val satisfies lb <= sum of coef * variable <= ub
Satisfies(val, c) ==
    LET x == SumOver(DOMAIN c.coef, [v \in DOMAIN c.coef |-> c.coef[v] * val[v]])
    IN  c.lb <= x /\ x <= c.ub

\* the variables of the links of (scn, t) that arrive at node n
Incoming(lps, n) ==
    UNION {{lps[m].borders[k].variable : k \in {j \in 1..Len(lps[m].borders) : lps[m].borders[j].dest = n}}
           : m \in DOMAIN lps}

\* the adequacy equation of node n under the assignment val
Balanced(val, lps, n) ==
    SumOver(Variables(lps[n].productions), val)
      + SumOver({lps[n].storages[k].var_out : k \in 1..Len(lps[n].storages)}, val)
      + SumOver(Incoming(lps, n), val)
      + SumOver(Variables(lps[n].consumptions), val)
    = SumSeq([k \in 1..Len(lps[n].consumptions) |-> lps[n].consumptions[k].quantity])
      + SumOver({lps[n].storages[k].var_in : k \in 1..Len(lps[n].storages)}, val)
      + SumOver(Variables(lps[n].borders), val)

\* C12: after AdequacyBuilder.build(), every assignment of the variables of
\* a (scn, t) that satisfies the constraints created for it balances every
\* node: productions + storage flow_out + incoming links + lost load =
\* asked consumption + storage flow_in + outgoing links
C12_FlowBalance ==
    \A b \in BuiltWorkers :
        \A x \in Range(worker[b].log) :
            LET lps == SlotNodes(b, x.scn, x.t)
                cs == SlotConstraints(b, x.scn, x.t)
            IN  \A val \in [SlotVariables(lps) -> 0..MaxValue] :
                    (\A n \in DOMAIN cs : Satisfies(val, cs[n])) =>
                        \A n \in DOMAIN lps : Balanced(val, lps, n)

(* ------------------------------- driver ------------------------------- *)

\* the local LP solve was called
LpCalled == call # <<>> /\ call.kind = "lp"

\* C13: _solve splits the scenarios 0..nb_scn-1 into cpu_count batches,
\* each a contiguous ascending range, pairwise disjoint, together exactly
\* 0..nb_scn-1
C13_Batches ==
    LpCalled =>
        /\ Len(batches) = cpu
        /\ \A b \in 1..Len(batches) : \A m \in 1..(Len(batches[b]) - 1) :
              batches[b][m + 1] = batches[b][m] + 1
        /\ \A b, c \in 1..Len(batches) :
              b # c => Range(batches[b]) \cap Range(batches[c]) = {}
        /\ UNION {Range(batches[b]) : b \in 1..Len(batches)} = 0..(study.nb_scn - 1)

\* three scenarios were split for two workers
C13_Witness ==
    /\ LpCalled
    /\ study.nb_scn = 3
    /\ cpu = 2
    /\ batches = << <<0, 1>>, <<2>> >>

\* the (scn, t, node) of the study, each once
StudyRecords ==
    {[scn |-> s, t |-> t, name |-> n] :
        s \in 0..(study.nb_scn - 1), t \in 0..(study.horizon - 1), n \in NodeNames(study)}

\* the batch whose worker solved scn
BatchOf(scn) == CHOOSE b \in 1..Len(batches) : scn \in Range(batches[b])

\* C14: a local LP solve ends with every (scn, t, node) handed to the
\* output mapper exactly once, with the record of the worker whose batch
\* holds scn
C14_MergedOnce ==
    (LpCalled /\ pc \in {"done", "failed"}) =>
        /\ \A x \in StudyRecords :
              Cardinality({k \in 1..Len(handed) :
                  handed[k].scn = x.scn /\ handed[k].t = x.t /\ handed[k].name = x.name}) = 1
        /\ \A k \in 1..Len(handed) :
              handed[k].vars =
                  worker[BatchOf(handed[k].scn)].variables[handed[k].scn + 1][handed[k].t + 1][handed[k].name]

\* C15: a batch whose solver did not end OPTIMAL, or whose worker raised,
\* fails the solve with an optimizer error; no Result is built from it
C15_WorkerFailure ==
    LpCalled =>
        /\ pc = "done" => \A b \in 1..cpu : worker[b].status = "OPTIMAL"
        /\ (pc = "failed" /\ \E b \in 1..cpu : worker[b].state = "raised") =>
              outcome.error = "OptimizerError"
        /\ (pc \in {"done", "failed"}
              /\ \E b \in 1..cpu : worker[b].state = "returned" /\ worker[b].status # "OPTIMAL") =>
              outcome.error = "OptimizerError"

\* C20: every (scn, t, node) of a batch gets one equality constraint with
\* both bounds at the asked consumption of the node; its slot t +
\* horizon * scn is inside the constraint table and is the slot of no other
\* (scn, t) of the batch
C20_OneConstraintPerNode ==
    \A b \in DOMAIN worker :
        worker[b].state # "pending" =>
            /\ worker[b].err # "IndexError"
            /\ \A scn \in Range(batches[b]) : \A t \in 0..(study.horizon - 1) :
                  /\ Slot(study.horizon, t, scn) < Len(worker[b].added.constraints)
                  /\ \A k \in 1..Len(study.nodes) :
                        LET cs == worker[b].added.constraints[Slot(study.horizon, t, scn) + 1]
                            nd == study.nodes[k]
                            asked == SumSeq([m \in 1..Len(nd.consumptions) |->
                                               Qty(nd.consumptions[m].quantity, scn, t)])
                        IN  /\ nd.name \in DOMAIN cs
                            /\ cs[nd.name].lb = asked
                            /\ cs[nd.name].ub = asked
                  /\ \A scn2 \in Range(batches[b]) : \A t2 \in 0..(study.horizon - 1) :
                        <<scn, t>> # <<scn2, t2>> =>
                            Slot(study.horizon, t, scn) # Slot(study.horizon, t2, scn2)

(* ------------------------------- facade ------------------------------- *)

\* a solver was started: the pool of the LP solve, the POST of the remote
\* solve, the actor solve
SolverStarted == worker # <<>> \/ posts # <<>> \/ pc = "actor"

\* C16 as stated: lp runs the local solve, remote the remote solve, and
\* every other kind raises without starting a solver
C16_OnlyLpAndRemote ==
    call # <<>> =>
        /\ call.kind = "lp" => worker # <<>> /\ posts = <<>>
        /\ call.kind = "remote" => Len(posts) = 1 /\ worker = <<>>
        /\ call.kind \notin {"lp", "remote"} =>
              pc = "failed" /\ outcome.error = "ValueError" /\ ~SolverStarted

\* C16: lp runs the local solve, remote the remote solve, actor the actor
\* solve, and every other kind raises without starting a solver
C16_Dispatch ==
    call # <<>> =>
        /\ call.kind = "lp" => worker # <<>> /\ posts = <<>> /\ pc # "actor"
        /\ call.kind = "remote" => Len(posts) = 1 /\ worker = <<>> /\ pc # "actor"
        /\ call.kind = "actor" => pc = "actor" /\ worker = <<>> /\ posts = <<>>
        /\ call.kind \notin {"lp", "remote", "actor"} =>
              pc = "failed" /\ outcome.error = "ValueError" /\ ~SolverStarted

\* solve was called with a kind it does not know
C16_Witness == call # <<>> /\ call.kind = "glpk" /\ pc = "failed"

\* C17: the remote solve POSTs the serialized study once to the url with
\* the token as query parameter; 200 returns the deserialized Result, 403
\* and 404 raise the authentication error, 5xx the remote I/O error, and an
\* error returns no Result
C17_RemoteStatus ==
    (call # <<>> /\ call.kind = "remote") =>
        /\ posts = << [url |-> call.url, data |-> Serialize(study),
                       params |-> [token |-> call.token]] >>
        /\ pc # "remote" =>
              /\ outcome.code = 200 =>
                    outcome.kind = "result" /\ outcome.value = RemoteResult(study)
              /\ outcome.code \in {403, 404} =>
                    outcome.kind = "error" /\ outcome.error = "AuthError" /\ outcome.value = <<>>
              /\ outcome.code \in 500..599 =>
                    outcome.kind = "error" /\ outcome.error = "RemoteIOError" /\ outcome.value = <<>>

\* a remote solve was refused by the server
C17_Witness ==
    call # <<>> /\ call.kind = "remote" /\ pc = "failed" /\ outcome.code = 403

(* ------------------------------ analysis ------------------------------ *)

Analyzed == analysis # <<>>

\* the used flow at (s, t) summed over the links ks of the analyzed network
FlowSum(ks, s, t) == SumOver(ks, [k \in ks |-> analysis.net.link[k].used[s][t]])

Arriving(s, t) ==
    FlowSum({k \in 1..Len(analysis.net.link) : analysis.net.link[k].dest = analysis.node}, s, t)
Leaving(s, t) ==
    FlowSum({k \in 1..Len(analysis.net.link) : analysis.net.link[k].src = analysis.node}, s, t)
Exports == \E k \in 1..Len(analysis.net.link) : analysis.net.link[k].src = analysis.node
Imports == \E k \in 1..Len(analysis.net.link) : analysis.net.link[k].dest = analysis.node

\* C18 as stated: get_balance(node) is the flow arriving at the node minus
\* the flow leaving it; a node that only exports has a balance <= 0, one
\* that only imports a balance >= 0
C18_BalanceImportsMinusExports ==
    Analyzed =>
        \A s \in 1..analysis.net.nb_scn : \A t \in 1..analysis.net.horizon :
            /\ analysis.balance[s][t] = Arriving(s, t) - Leaving(s, t)
            /\ (Exports /\ ~Imports) => analysis.balance[s][t] <= 0
            /\ (Imports /\ ~Exports) => analysis.balance[s][t] >= 0

\* C18: get_balance(node) is the flow leaving the node minus the flow
\* arriving at it; a node that only exports has a balance >= 0, one that
\* only imports a balance <= 0; on the study of the test, node a has
\* [[30, 3, 3], [3, 30, 30]] and node b the opposite of [[10, 1, 1], [1, 10, 10]]
C18_BalanceExportsMinusImports ==
    Analyzed =>
        /\ \A s \in 1..analysis.net.nb_scn : \A t \in 1..analysis.net.horizon :
              /\ analysis.balance[s][t] = Leaving(s, t) - Arriving(s, t)
              /\ (Exports /\ ~Imports) => analysis.balance[s][t] >= 0
              /\ (Imports /\ ~Exports) => analysis.balance[s][t] <= 0
        /\ (analysis.net = TestNetwork /\ analysis.node = "a") => analysis.balance = M(30)
        /\ (analysis.net = TestNetwork /\ analysis.node = "b") =>
              analysis.balance = [s \in 1..2 |-> [t \in 1..3 |-> 0 - M(10)[s][t]]]

\* the balance of a node that only exports was computed
C18_Witness ==
    Analyzed /\ analysis.net = TestNetwork /\ analysis.node = "a" /\ analysis.balance[1][1] = 30

\* the sum over the rows of a table of the analyzed network of a column at
\* (s, t)
Total(rows, col, s, t) ==
    SumOver(1..Len(rows), [k \in 1..Len(rows) |-> rows[k][col][s][t]])

C27_FailedAddChangesNothing ==
    lastAdd.err =>
        /\ heap = prev.heap
        /\ plug = prev.plug
        /\ next_computes = prev.next_computes
        /\ (out.status = "ok" /\ out.stage = lastAdd.i) =>
              out.trace = <<lastAdd.i>> \o prev.next_computes[lastAdd.i]

\* after an addition and then a failed addition of something that is not a
\* Stage, the pipeline was computed
C27_Witness ==
    /\ lastAdd.err
    /\ lastAdd.j = NotAStage
    /\ nadds = 1
    /\ out.status = "ok"
    /\ out.stage = lastAdd.i
    /\ Len(out.trace) = 2

(* --------------------------- the caller's table ---------------------- *)

\* C28: compute leaves the table object of its caller as it was: after it
\* returned or raised the table has the column keys, flat when it was
\* passed flat, and the cell values it had before the call
C28_CallerTableUntouched ==
    out.status # "none" =>
        /\ table.flat = out.arg.flat
        /\ table.cols = out.arg.cols

(* -------------------------------- faults ------------------------------ *)

\* the steps of the last compute that ran a Fault
FaultSteps == {x \in 1..Len(out.steps) : kind[out.trace[x]].type = "Fault"}

\* the rows 0..H-1 the fault f of a Fault covers: [begin, begin + duration)
\* cut at the horizon
Interval(k, f) ==
    {t \in 0..(Horizon - 1) :
        FaultsBegin(k, f) <= t /\ t < FaultsBegin(k, f) + FaultsDuration(k, f)}

\* k(t): the number of sampled fault intervals that hold row t
NbHits(k, t) == Cardinality({f \in 1..NbFaults(k) : t \in Interval(k, f)})

\* C25: Fault returns, for every scenario, quantity[t] - loss * k(t) at
\* every row t, k(t) the number of sampled intervals [begin, begin +
\* duration) holding t; durations lie in [downtime_min, downtime_max]; the
\* other signals and the rows outside every interval keep their value
C25_FaultLoss ==
    \A x \in FaultSteps :
        LET k == kind[out.trace[x]]
            given == StepInput(x)
            res == out.steps[x]
        IN  /\ \A f \in 1..NbFaults(k) :
                  k.downtime_min <= FaultsDuration(k, f) /\ FaultsDuration(k, f) <= k.downtime_max
            /\ \A c \in 1..Len(given) :
                  \E d \in 1..Len(res) :
                      /\ res[d].scn = given[c].scn
                      /\ res[d].name = given[c].name
                      /\ Len(res[d].vals) = Len(given[c].vals)
                      /\ \A t \in 1..Len(given[c].vals) :
                            res[d].vals[t] =
                                IF given[c].name = "quantity"
                                THEN given[c].vals[t] - k.loss * NbHits(k, t - 1)
                                ELSE given[c].vals[t]

\* the Fault steps whose stage still has the plug it was built with
BuiltFaultSteps ==
    {x \in FaultSteps : /\ heap[plug[out.trace[x]].inputs] = <<"quantity">>
                        /\ heap[plug[out.trace[x]].outputs] = <<"quantity">>}

\* the values of signal nm in scenario s of a table
ValsOf(cols, s, nm) ==
    cols[CHOOSE c \in 1..Len(cols) : cols[c].scn = s /\ cols[c].name = nm].vals

\* the loss the Fault of step x took from quantity in scenario s, by row
Pattern(x, s) ==
    [t \in 1..Horizon |->
        ValsOf(StepInput(x), s, "quantity")[t] - ValsOf(out.steps[x], s, "quantity")[t]]

\* the loss pattern of one scenario of step x, none on a table without
\* scenario
OnePattern(x) ==
    LET S == ScnSet(StepInput(x))
    IN  IF S = {} THEN <<>> ELSE Pattern(x, CHOOSE s \in S : TRUE)

Started == {b \in DOMAIN worker : worker[b].state # "pending"}

\* the add_node calls of worker b that returned, in order: every call of the
\* log but the one that raised
Registered(b) ==
    IF worker[b].err = "IndexError"
    THEN SubSeq(worker[b].log, 1, Len(worker[b].log) - 1)
    ELSE worker[b].log

\* the constraints the builder of b held for (scn, t) before build()
AddedConstraints(b, scn, t) ==
    worker[b].added.constraints[Slot(study.horizon, t, scn) + 1]

\* the variable v belongs to node name at (scn, t)
VariableOf(v, scn, t, name) == v.scn = scn /\ v.t = t /\ v.node = name

\* C21: after add_node(name, t, node, scn) the constraint of (scn, t, name)
\* has +1 on each lost-load variable and each production variable of the
\* node, -1 on each variable of a link leaving it, and no coefficient on a
\* variable of another (scn, t) or of another node
C21_AddNodeCoefficients ==
    \A b \in Started :
        \A x \in Range(Registered(b)) :
            LET lp == SlotNodes(b, x.scn, x.t)[x.name]
                cs == AddedConstraints(b, x.scn, x.t)
            IN  /\ x.name \in DOMAIN cs
                /\ \A v \in Variables(lp.consumptions) \cup Variables(lp.productions) :
                      v \in DOMAIN cs[x.name].coef /\ cs[x.name].coef[v] = 1
                /\ \A v \in Variables(lp.borders) :
                      v \in DOMAIN cs[x.name].coef /\ cs[x.name].coef[v] = -1
                /\ \A v \in DOMAIN cs[x.name].coef : VariableOf(v, x.scn, x.t, x.name)

\* add_node returned for a node with two consumptions, a production and a
\* link, in a study of two nodes and two timesteps
C21_Witness ==
    \E b \in Started :
        \E x \in Range(Registered(b)) :
            LET lp == SlotNodes(b, x.scn, x.t)[x.name]
            IN  /\ Len(study.nodes) = 2
                /\ x.t = 1
                /\ Len(lp.consumptions) = 2
                /\ Len(lp.productions) = 1
                /\ Len(lp.borders) = 1
                /\ AddedConstraints(b, x.scn, x.t)[x.name].coef[lp.borders[1].variable] = -1

\* the positions of a call in the calls of worker b
Positions(b, c) == {k \in 1..Len(worker[b].calls) : worker[b].calls[k] = c}

\* the links registered in slot (scn, t) of the builder of b
RegisteredBorders(b, scn, t) ==
    Range(worker[b].added.borders[Slot(study.horizon, t, scn) + 1])

\* C22: adequacy.build() runs once, after add_node was called for every
\* (scn, t, node) of the batch and before solver.Solve(); it gives every
\* link variable registered in a slot +1 in the constraint of its
\* destination in that slot, keeps its -1 at the source, and changes nothing
\* else
C22_SecondPass ==
    \A b \in Started :
        /\ Cardinality(Positions(b, "adequacy.build")) <= 1
        /\ \A s \in Positions(b, "solver.Solve") : \E k \in Positions(b, "adequacy.build") : k < s
        /\ \A k \in Positions(b, "adequacy.build") :
              /\ \A a \in Positions(b, "adequacy.add_node") : a < k
              /\ Cardinality(Positions(b, "adequacy.add_node"))
                    = Len(batches[b]) * study.horizon * Len(study.nodes)
        /\ b \in BuiltWorkers =>
              /\ Cardinality(Positions(b, "adequacy.build")) = 1
              /\ \A x \in Range(worker[b].log) :
                    LET before == AddedConstraints(b, x.scn, x.t)
                        after == SlotConstraints(b, x.scn, x.t)
                        links == RegisteredBorders(b, x.scn, x.t)
                    IN  /\ DOMAIN after = DOMAIN before
                        /\ \A n \in DOMAIN after :
                              LET inc == {l.variable : l \in {l \in links : l.dest = n}}
                              IN  /\ after[n].lb = before[n].lb
                                  /\ after[n].ub = before[n].ub
                                  /\ DOMAIN after[n].coef = DOMAIN before[n].coef \cup inc
                                  /\ \A v \in inc : after[n].coef[v] = 1
                                  /\ \A v \in DOMAIN before[n].coef \ inc :
                                        after[n].coef[v] = before[n].coef[v]
                        /\ \A l \in links :
                              /\ VariableOf(l.variable, x.scn, x.t, l.src)
                              /\ after[l.src].coef[l.variable] = -1

\* a worker has solved a problem of two nodes linked both ways over two
\* timesteps: the link from a has +1 at b and -1 at a
C22_Witness ==
    \E b \in DOMAIN worker :
        /\ worker[b].state = "returned"
        /\ study.horizon = 2
        /\ Len(study.nodes) = 2
        /\ Len(worker[b].log) = 4
        /\ worker[b].calls[5] = "objective.build"
        /\ worker[b].calls[6] = "adequacy.build"
        /\ worker[b].calls[7] = "solver.Solve"
        /\ SlotConstraints(b, 0, 1)["b"].coef[Variable(0, 1, "a", "link", "b")] = 1
        /\ SlotConstraints(b, 0, 1)["a"].coef[Variable(0, 1, "a", "link", "b")] = -1

\* the cost of the element a decision variable of the LP records lps
\* belongs to, storage flows included
CostOf(lps, v) ==
    LET lp == lps[v.node]
        pick(recs) == recs[CHOOSE k \in 1..Len(recs) : recs[k].variable = v].cost
    IN  IF v.kind = "consumption" THEN pick(lp.consumptions)
        ELSE IF v.kind = "production" THEN pick(lp.productions)
        ELSE IF v.kind = "link" THEN pick(lp.borders)
        ELSE IF v.kind = "flow_in"
             THEN lp.storages[CHOOSE k \in 1..Len(lp.storages) : lp.storages[k].var_in = v].cost_in
        ELSE lp.storages[CHOOSE k \in 1..Len(lp.storages) : lp.storages[k].var_out = v].cost_out

\* C23: the objective is a minimization and, once ObjectiveBuilder.add_node
\* was called for every (scn, t, node) of the batch, every decision variable
\* of the batch has the cost of its element as objective coefficient:
\* consumption, production and link cost, cost_in and cost_out of a storage
C23_ObjectiveCosts ==
    \A b \in BuiltWorkers :
        /\ worker[b].objective.minimization
        /\ \A x \in Range(worker[b].log) :
              \A v \in SlotVariables(SlotNodes(b, x.scn, x.t)) :
                  /\ v \in DOMAIN worker[b].objective.coef
                  /\ worker[b].objective.coef[v] = CostOf(SlotNodes(b, x.scn, x.t), v)

\* the index of the node called name in the study
NodeIndex(name) == CHOOSE k \in 1..Len(study.nodes) : study.nodes[k].name = name

\* the add_node call that follows the call x in the batch of worker b: the
\* next node of the study, else the first node at the next timestep, else
\* at timestep 0 of the next scenario of the batch
FollowedBy(b, x, y) ==
    LET n == Len(study.nodes)
        s == CHOOSE k \in 1..Len(batches[b]) : batches[b][k] = x.scn
    IN  IF NodeIndex(x.name) < n
        THEN y.scn = x.scn /\ y.t = x.t /\ NodeIndex(y.name) = NodeIndex(x.name) + 1
        ELSE IF x.t < study.horizon - 1
        THEN y.scn = x.scn /\ y.t = x.t + 1 /\ NodeIndex(y.name) = 1
        ELSE /\ s < Len(batches[b])
             /\ y.scn = batches[b][s + 1]
             /\ y.scn > x.scn
             /\ y.t = 0
             /\ NodeIndex(y.name) = 1

\* C24: the add_node calls of a worker are fixed by the study and the batch:
\* they start at the first node, timestep 0 and the first scenario of the
\* batch, and go through the nodes in insertion order, then the timesteps
\* ascending, then the scenarios of the batch ascending; two workers with
\* the same batch make the same calls
C24_DeterministicOrder ==
    /\ \A b \in Started :
          LET log == worker[b].log
          IN  /\ log # <<>> =>
                    /\ log[1].scn = batches[b][1]
                    /\ log[1].t = 0
                    /\ NodeIndex(log[1].name) = 1
              /\ \A k \in 1..(Len(log) - 1) : FollowedBy(b, log[k], log[k + 1])
              /\ batches[b] # <<>> => log # <<>>
              /\ b \in BuiltWorkers =>
                    Len(log) = Len(batches[b]) * study.horizon * Len(study.nodes)
    /\ \A b \in Started : \A c \in Started :
          batches[b] = batches[c] => worker[b].log = worker[c].log

\* a worker went through two nodes and two timesteps of scenario 0 and then
\* called add_node for scenario 1
C24_Witness ==
    \E b \in Started :
        /\ batches[b] = <<0, 1>>
        /\ study.horizon = 2
        /\ Len(study.nodes) = 2
        /\ Len(worker[b].log) = 5
        /\ worker[b].log[2] = [scn |-> 0, t |-> 0, name |-> "b"]
        /\ worker[b].log[3] = [scn |-> 0, t |-> 1, name |-> "a"]
        /\ worker[b].log[5] = [scn |-> 1, t |-> 0, name |-> "a"]

(***************************************************************************)
(* The entry handlers of the actor solver.  An entry handler holds a chain *)
(* of handlers and runs it on copies of the state and of the message it is *)
(* given.  Objects live in a memory: an object has a field and a reference *)
(* to a nested object (the exchanges of a State, the path of a message).   *)
(***************************************************************************)

\* the values of a field are 0..MaxField
MaxField == 1

\* the reference None
None == 0

Object(v, r) == [field |-> v, ref |-> r]

\* copy.copy(x) on the memory m: a new object on the nested object of x
copy(m, x) ==
    IF x = None THEN [mem |-> m, ref |-> None]
    ELSE [mem |-> Append(m, m[x]), ref |-> Len(m) + 1]

RECURSIVE deepcopy(_, _)
\* copy.deepcopy(x) on the memory m: a new object on a copy of the nested
\* object of x; the memory with the copies and the address of the copy
deepcopy(m, x) ==
    IF x = None THEN [mem |-> m, ref |-> None]
    ELSE LET nested == deepcopy(m, m[x].ref)
         IN  [mem |-> Append(nested.mem, Object(m[x].field, nested.ref)),
              ref |-> Len(nested.mem) + 1]

RECURSIVE Reachable(_, _)
\* the objects reached from the reference x
Reachable(m, x) == IF x = None THEN {} ELSE {x} \cup Reachable(m, m[x].ref)

\* a handler of a chain: its class, its type or exchange_type, and the
\* handlers it may hand over to
Handler(cls, arg, next) == [cls |-> cls, arg |-> arg, next |-> next]

ReturnHandler == Handler("ReturnHandler", "", <<>>)

\* StartHandler.__init__
StartChain == Handler("ProposeFreeProductionHandler", "", <<ReturnHandler>>)

\* CanceledCustomerExchangeHandler.__init__: after_backward, on_resume
CanceledCustomerExchangeChain ==
    Handler("CancelExportationHandler", "",
        << Handler("BackwardMessageHandler", "tell",
              << ReturnHandler,
                 Handler("ProposeFreeProductionHandler", "", <<ReturnHandler>>) >>) >>)

\* ProposalOfferHandler.__init__: after_backward, on_resume
ProposalOfferChain ==
    Handler("CheckOfferBorderCapacityHandler", "",
        << Handler("BackwardMessageHandler", "ask",
              << Handler("SaveExchangeHandler", "transfer", <<ReturnHandler>>),
                 Handler("AcceptExchangeHandler", "",
                    << Handler("SaveExchangeHandler", "export", <<ReturnHandler>>) >>) >>) >>)

\* a chain that computes the adequacy before it saves the exchange
ProposalChainAdequacyFirst ==
    Handler("CompareNewProduction", "",
        << Handler("ForwardMessageHandler", "", <<ReturnHandler>>),
           Handler("MakerOfferHandler", "",
              << Handler("AdequacyHandler", "",
                    << Handler("SaveExchangeHandler", "import",
                          << Handler("ProposeFreeProductionHandler", "",
                                << Handler("CancelUselessImportationHandler", "",
                                      <<ReturnHandler>>) >>) >>) >>) >>) >>)

\* ProposalHandler.__init__: for_prod_useless, for_prod_useful
ProposalChain ==
    Handler("CompareNewProduction", "",
        << Handler("ForwardMessageHandler", "", <<ReturnHandler>>),
           Handler("MakerOfferHandler", "",
              << Handler("SaveExchangeHandler", "import",
                    << Handler("AdequacyHandler", "",
                          << Handler("ProposeFreeProductionHandler", "",
                                << Handler("CancelUselessImportationHandler", "",
                                      <<ReturnHandler>>) >>) >>) >>) >>) >>)

EntryHandlers ==
    {"StartHandler", "CanceledCustomerExchangeHandler", "ProposalOfferHandler",
     "ProposalHandler"}

\* self.handler of an entry handler
Chain(e) ==
    CASE e = "StartHandler" -> StartChain
      [] e = "CanceledCustomerExchangeHandler" -> CanceledCustomerExchangeChain
      [] e = "ProposalOfferHandler" -> ProposalOfferChain
      [] e = "ProposalHandler" -> ProposalChain

\* the State of the caller and its exchanges, the message and its path
CallerState == 1
CallerMessage == 3

\* the call self.handler.execute runs on: the handler at work, the state
\* and message it holds, and what the caller gave
NoCall ==
    [pc |-> "idle", entry |-> "", handler |-> ReturnHandler, state |-> None,
     message |-> None, given |-> [state |-> None, message |-> None, mem |-> <<>>],
     returned |-> None]

ActorInit ==
    /\ \E v, w \in 0..MaxField :
          mem = << Object(v, 2), Object(0, None), Object(w, 4), Object(0, None) >>
    /\ act = NoCall
    /\ ran = <<>>
    /\ PipelineIdle
    /\ SolverIdle

\* entry.execute(state, message): the chain is given deep copies
Execute(e, state, message) ==
    /\ act.pc = "idle"
    /\ LET s == deepcopy(mem, state)
           m == deepcopy(s.mem, message)
       IN  /\ mem' = m.mem
           /\ act' = [pc |-> "running", entry |-> e, handler |-> Chain(e),
                      state |-> s.ref, message |-> m.ref,
                      given |-> [state |-> state, message |-> message, mem |-> mem],
                      returned |-> None]
    /\ ran' = <<>>
    /\ UNCHANGED pipelineVars
    /\ UNCHANGED solverVars

\* the handler at work runs: it may write a field of an object reached from
\* the state or the message it holds, then hands over to one of its next
\* handlers
HandlerExecute(target, v, k) ==
    /\ act.pc = "running"
    /\ act.handler.cls # "ReturnHandler"
    /\ target \in {None} \cup Reachable(mem, act.state) \cup Reachable(mem, act.message)
    /\ k \in 1..Len(act.handler.next)
    /\ mem' = IF target = None THEN mem ELSE [mem EXCEPT ![target].field = v]
    /\ act' = [act EXCEPT !.handler = act.handler.next[k]]
    /\ ran' = Append(ran, [cls |-> act.handler.cls, arg |-> act.handler.arg])
    /\ UNCHANGED pipelineVars
    /\ UNCHANGED solverVars

\* ReturnHandler.execute: the state it holds is the result
Return ==
    /\ act.pc = "running"
    /\ act.handler.cls = "ReturnHandler"
    /\ act' = [act EXCEPT !.pc = "done", !.returned = act.state]
    /\ ran' = Append(ran, [cls |-> "ReturnHandler", arg |-> ""])
    /\ UNCHANGED mem
    /\ UNCHANGED pipelineVars
    /\ UNCHANGED solverVars

ActorNext ==
    \/ \E e \in EntryHandlers : \E message \in {None, CallerMessage} :
          Execute(e, CallerState, message)
    \/ \E target \in {None} \cup DOMAIN mem : \E v \in 0..MaxField :
          \E k \in DOMAIN act.handler.next : HandlerExecute(target, v, k)
    \/ Return

SpecActor == ActorInit /\ [][ActorNext]_vars

\* C29: every entry handler runs its chain on deep copies: the objects of
\* the caller, the state, the message and what they hold, are after execute
\* what they were before it, and the state returned is none of them
C29_EntryCopies ==
    act.pc # "idle" =>
        /\ \A a \in 1..Len(act.given.mem) : mem[a] = act.given.mem[a]
        /\ Reachable(mem, act.state) \cap (1..Len(act.given.mem)) = {}
        /\ Reachable(mem, act.message) \cap (1..Len(act.given.mem)) = {}
        /\ act.pc = "done" =>
              /\ act.returned # None
              /\ Reachable(mem, act.returned) \cap (1..Len(act.given.mem)) = {}

\* a chain returned after it wrote the exchanges of the state and the path
\* of the message it held
C29_Witness ==
    /\ act.pc = "done"
    /\ act.entry = "ProposalOfferHandler"
    /\ act.given.message = CallerMessage
    /\ mem[mem[act.returned].ref].field # mem[mem[act.given.state].ref].field
    /\ mem[mem[act.message].ref].field # mem[mem[act.given.message].ref].field

\* one handler that ran
Ran(cls, arg) == [cls |-> cls, arg |-> arg]

\* the steps of a useless production and of a useful one
Useless ==
    << Ran("CompareNewProduction", ""), Ran("ForwardMessageHandler", ""),
       Ran("ReturnHandler", "") >>
Useful ==
    << Ran("CompareNewProduction", ""), Ran("MakerOfferHandler", ""),
       Ran("SaveExchangeHandler", "import"), Ran("AdequacyHandler", ""),
       Ran("ProposeFreeProductionHandler", ""),
       Ran("CancelUselessImportationHandler", ""), Ran("ReturnHandler", "") >>

\* p is the beginning of q
IsPrefix(p, q) == Len(p) <= Len(q) /\ p = SubSeq(q, 1, Len(p))

\* C30: ProposalHandler compares the proposal with the state first; for a
\* useless production it forwards the proposal and returns, with no offer
\* and no exchange saved; for a useful one it makes an offer, saves the
\* exchange as import, computes the adequacy, proposes the free production,
\* cancels the useless importation and returns, in this order and each once
C30_ProposalOrder ==
    (act.pc # "idle" /\ act.entry = "ProposalHandler") =>
        /\ IsPrefix(ran, Useless) \/ IsPrefix(ran, Useful)
        /\ act.pc = "done" => ran \in {Useless, Useful}

\* a proposal of a useful production was handled to the end
C30_Witness ==
    /\ act.pc = "done"
    /\ act.entry = "ProposalHandler"
    /\ Len(ran) = 7
    /\ ran[3] = Ran("SaveExchangeHandler", "import")

====
